---- MODULE Spec2Model ----
(***************************************************************************)
(* A model of the chained hash table of hash_table.c: the hash function,   *)
(* the bucket array, the heap of entry nodes and key copies, and the       *)
(* operations create / add / check / find / change / remove / destroy.     *)
(*                                                                         *)
(* Pointers are block numbers (NULL is 0).  malloc hands out the lowest    *)
(* block never handed out before; a freed block is never handed out again  *)
(* and its contents are blanked, so a pointer left to it stays visible as  *)
(* a pointer to a "freed" block.  A NULL dereference ends the process      *)
(* (status "crashed").                                                     *)
(***************************************************************************)
EXTENDS Integers, Sequences, FiniteSets, TLC

\* ------------------------------------------------------------------ bounds
MaxCap == 2        \* create is called with a size in 0..MaxCap
MaxNodes == 3      \* entry nodes malloc'ed over the life of one table
MaxKeyLen == 7     \* longest key given to HT_hash on its own (7 bytes wrap 2^32)

\* --------------------------------------------------------------- constants
HASHPRIME == 31
NULL == 0
HASH_SIZE == 10
Limb == 2^16       \* an unsigned int (32 bits) is the pair <<hi, lo>> = hi * Limb + lo

Addr == 1..MaxNodes
\* The caller's two key buffers are blocks of the same heap, numbered after Addr.
CallerBufs == {MaxNodes + 1, MaxNodes + 2}
NoIndex == 0 - 1
\* Two values tell an entry's value from the value of another entry.
Values == {1, 2}
Sizes == 0..MaxCap
\* The keys given to the table: "a", "b" and "ab".  With capacity 1 all three
\* share bucket 0; with capacity 2 "a" and "ab" share bucket 1 and "b" is alone
\* in bucket 0.
Keys == {<<97>>, <<98>>, <<97, 98>>}
\* The bytes of the keys given to HT_hash on its own: 'a', 'b' and 0xFF.
HashBytes == {97, 98, 255}
HashSizes == (1..MaxCap) \cup {HASH_SIZE}

VARIABLES
    status,      \* "none" (no table yet), "live", "destroyed", "crashed"
    capacity,    \* h_table->capacity
    nodes,       \* h_table->nodes: [0..capacity-1 -> Addr \cup {NULL}]
    mem,         \* the HT_Node blocks: [Addr -> [next, key, value]]
    keymem,      \* the key copies: [Addr -> byte sequence]
    heap,        \* which blocks are "unalloc", "live" or "freed"
    call,        \* the last call: [op, key]
    ret,         \* what the last call returned: [kind, val]
    charSigned,  \* whether plain char is signed in this build
    hkey,        \* HT_hash on its own: the key argument
    hsize,       \*   the size argument
    hpos,        \*   the position of the key pointer (1-based)
    hashval,     \*   the accumulator <<hi, lo>>
    hpc,         \*   "idle", "loop" or "done"
    index1,      \* test_hash: the index of the key before one byte was changed
    cbuf,        \* the caller's key buffers: [CallerBufs -> byte sequence]
    keyptr       \* the caller's buffer that holds the next key argument, or NULL

tableVars == <<capacity, nodes, mem, keymem, heap>>
hashVars == <<hkey, hsize, hpos, hashval, hpc, index1>>
callerVars == <<cbuf, keyptr>>
vars == <<status, capacity, nodes, mem, keymem, heap, call, ret, charSigned,
          hkey, hsize, hpos, hashval, hpc, index1, cbuf, keyptr>>

\* ---------------------------------------------------- calls and return values
Call(op, key) == [op |-> op, key |-> key]
Void == [kind |-> "void", val |-> 0]
IntRet(n) == [kind |-> "int", val |-> n]
Segv == [kind |-> "segv", val |-> 0]
Sigfpe == [kind |-> "sigfpe", val |-> 0]

\* ------------------------------------------------------------------ HT_hash
\* *key converted to unsigned int: a plain char above 127 is negative when
\* char is signed, and wraps to 2^32 - 256 + b.
CharToUnsigned(b) ==
    IF charSigned /\ b >= 128 THEN <<Limb - 1, Limb - 256 + b>> ELSE <<0, b>>

\* hashval = *key + HASHPRIME * hashval, in 32-bit unsigned arithmetic.
\* HashStep with the multiplier 30, a multiple of 10.
HashStep_even(h, b) ==
    LET c == CharToUnsigned(b)
        lo == c[2] + 30 * h[2]
        hi == c[1] + 30 * h[1] + (lo \div Limb)
    IN  <<hi % Limb, lo % Limb>>

HashStep(h, b) ==
    LET c == CharToUnsigned(b)
        lo == c[2] + HASHPRIME * h[2]
        hi == c[1] + HASHPRIME * h[1] + (lo \div Limb)
    IN  <<hi % Limb, lo % Limb>>

\* UMod without the last reduction.
UMod_nofinal(h, size) == ((h[1] % size) * (Limb % size)) + (h[2] % size)

\* hashval % size, for 0 < size.
UMod(h, size) == (((h[1] % size) * (Limb % size)) + (h[2] % size)) % size

RECURSIVE HashLoop(_, _)
HashLoop(h, key) ==
    IF key = <<>> THEN h ELSE HashLoop(HashStep(h, Head(key)), Tail(key))

HT_hash(key, size) == UMod(HashLoop(<<0, 0>>, key), size)

\* ------------------------------------------------------------------- strcmp
RECURSIVE strcmp(_, _)
strcmp(s1, s2) ==
    LET c1 == IF s1 = <<>> THEN 0 ELSE Head(s1)
        c2 == IF s2 = <<>> THEN 0 ELSE Head(s2)
    IN  IF c1 # c2 THEN c1 - c2
        ELSE IF c1 = 0 THEN 0
        ELSE strcmp(Tail(s1), Tail(s2))

\* The string a char* points to: a key copy of the table or a caller's buffer.
Str(p) == IF p \in Addr THEN keymem[p] ELSE cbuf[p]

\* node->key as a string
KeyOf(node) == Str(mem[node].key)

\* --------------------------------------------------------------------- Init
NoNode == [next |-> NULL, key |-> NULL, value |-> 0]
NoHeap == [ht |-> "unalloc", nodes |-> "unalloc",
           node |-> [a \in Addr |-> "unalloc"],
           key |-> [a \in Addr |-> "unalloc"],
           cbuf |-> [b \in CallerBufs |-> "unalloc"]]

InitTable ==
    /\ status = "none"
    /\ capacity = 0
    /\ nodes = [i \in {} |-> NULL]
    /\ mem = [a \in Addr |-> NoNode]
    /\ keymem = [a \in Addr |-> <<>>]
    /\ heap = NoHeap
    /\ call = Call("none", <<>>)
    /\ ret = Void

\* The caller passes string literals: it owns no key buffer.
NoCaller ==
    /\ cbuf = [b \in CallerBufs |-> <<>>]
    /\ keyptr = NULL

HashIdle ==
    /\ hkey = <<>>
    /\ hsize = 1
    /\ hpos = 1
    /\ hashval = <<0, 0>>
    /\ hpc = "idle"
    /\ index1 = NoIndex

\* The table's keys are 7-bit, so the signedness of char does not reach it.
Init ==
    /\ InitTable
    /\ charSigned = TRUE
    /\ HashIdle
    /\ NoCaller

\* ---------------------------------------------------------------- HT_create
\* HT_create stores any size, 0 included, and returns the table.
HT_create(size) ==
    /\ status = "none"
    /\ status' = "live"
    /\ capacity' = size
    /\ nodes' = [i \in 0..(size - 1) |-> NULL]
    /\ heap' = [heap EXCEPT !.ht = "live", !.nodes = "live"]
    /\ call' = Call("create", <<>>)
    /\ ret' = Void
    /\ UNCHANGED <<mem, keymem, charSigned, hashVars, callerVars>>

\* hashval % 0 in HT_hash: the division traps, or yields an index outside the
\* empty bucket array; either way the call does not return.
DivByZero ==
    /\ status' = "crashed"
    /\ ret' \in {Sigfpe, Segv}
    /\ UNCHANGED <<tableVars, charSigned, hashVars, callerVars>>

\* A NULL pointer is dereferenced.
NullDeref ==
    /\ status' = "crashed"
    /\ ret' = Segv
    /\ UNCHANGED <<tableVars, charSigned, hashVars, callerVars>>

\* ------------------------------------------------------- _HT_check, HT_check
\* _HT_check without the key comparison: any entry in the bucket counts.
_HT_check_any(node, key) == IF node = NULL THEN 0 ELSE 1

RECURSIVE _HT_check(_, _)
_HT_check(node, key) ==
    IF node = NULL THEN 0
    ELSE IF strcmp(KeyOf(node), key) = 0 THEN 1
    ELSE _HT_check(mem[node].next, key)

\* The value HT_check returns on a table of capacity > 0.
CheckOf(key) == _HT_check(nodes[HT_hash(key, capacity)], key)

HT_check(key) ==
    /\ status = "live"
    /\ call' = Call("check", key)
    /\ IF capacity = 0
       THEN DivByZero
       ELSE /\ ret' = IntRet(CheckOf(key))
            /\ UNCHANGED <<status, tableVars, charSigned, hashVars, callerVars>>

\* --------------------------------------------------------- _HT_find, HT_find
\* nodes->key is read without a NULL test: at the end of the chain the read
\* is a NULL dereference.
RECURSIVE _HT_find(_, _)
_HT_find(node, key) ==
    IF node = NULL THEN Segv
    ELSE IF strcmp(KeyOf(node), key) = 0 THEN IntRet(mem[node].value)
    ELSE _HT_find(mem[node].next, key)

\* What HT_find returns on a table of capacity > 0.
FindOf(key) == _HT_find(nodes[HT_hash(key, capacity)], key)

HT_find(key) ==
    /\ status = "live"
    /\ call' = Call("find", key)
    /\ IF capacity = 0
       THEN DivByZero
       ELSE /\ ret' = FindOf(key)
            /\ status' = IF FindOf(key) = Segv THEN "crashed" ELSE status
            /\ UNCHANGED <<tableVars, charSigned, hashVars, callerVars>>

\* ------------------------------------------------------------------ _lookup
RECURSIVE LookupFrom(_, _)
LookupFrom(np, s) ==
    IF np = NULL THEN NULL
    ELSE IF strcmp(s, KeyOf(np)) = 0 THEN np
    ELSE LookupFrom(mem[np].next, s)

_lookup(s) == LookupFrom(nodes[HT_hash(s, capacity)], s)

\* ------------------------------------------------------------------- HT_add
\* malloc: the lowest block never handed out (NULL when the model's supply
\* is used up; HT_add is then not taken).  HT_add allocates a node and a key
\* copy together, so the key copy of node a is key block a.
Malloc(blocks) ==
    IF \E a \in Addr : blocks[a] = "unalloc"
    THEN CHOOSE a \in Addr :
            /\ blocks[a] = "unalloc"
            /\ \A b \in Addr : blocks[b] = "unalloc" => a <= b
    ELSE NULL

\* The chain and its entries as HT_print lists them: (key, value), head first.
RECURSIVE Chain(_)
Chain(node) == IF node = NULL THEN <<>> ELSE <<node>> \o Chain(mem[node].next)

RECURSIVE _HT_print(_)
_HT_print(node) ==
    IF node = NULL THEN <<>>
    ELSE <<[key |-> KeyOf(node), value |-> mem[node].value]>>
            \o _HT_print(mem[node].next)

\* HT_add with new_node->next = NULL: the old chain is dropped.
HT_add_drop(key, value) ==
    /\ status = "live"
    /\ Malloc(heap.node) # NULL
    /\ call' = Call("add", key)
    /\ IF capacity = 0
       THEN DivByZero
       ELSE LET hash_val == HT_hash(key, capacity)
                new_node == Malloc(heap.node)
                new_key == Malloc(heap.key)
            IN  /\ keymem' = [keymem EXCEPT ![new_key] = key]
                /\ mem' = [mem EXCEPT ![new_node] =
                             [next |-> NULL, key |-> new_key, value |-> value]]
                /\ nodes' = [nodes EXCEPT ![hash_val] = new_node]
                /\ heap' = [heap EXCEPT !.node[new_node] = "live",
                                        !.key[new_key] = "live"]
                /\ ret' = Void
                /\ UNCHANGED <<status, capacity, charSigned, hashVars, callerVars>>

\* HT_add that overwrites the value of an entry already holding the key.
HT_add_replace(key, value) ==
    /\ status = "live"
    /\ Malloc(heap.node) # NULL
    /\ call' = Call("add", key)
    /\ IF capacity = 0
       THEN DivByZero
       ELSE LET hash_val == HT_hash(key, capacity)
                new_node == Malloc(heap.node)
                new_key == Malloc(heap.key)
                old == _lookup(key)
            IN  IF old # NULL
                THEN /\ mem' = [mem EXCEPT ![old].value = value]
                     /\ ret' = Void
                     /\ UNCHANGED <<status, capacity, nodes, keymem, heap,
                                    charSigned, hashVars, callerVars>>
                ELSE /\ keymem' = [keymem EXCEPT ![new_key] = key]
                     /\ mem' = [mem EXCEPT ![new_node] =
                                  [next |-> nodes[hash_val], key |-> new_key,
                                   value |-> value]]
                     /\ nodes' = [nodes EXCEPT ![hash_val] = new_node]
                     /\ heap' = [heap EXCEPT !.node[new_node] = "live",
                                             !.key[new_key] = "live"]
                     /\ ret' = Void
                     /\ UNCHANGED <<status, capacity, charSigned, hashVars, callerVars>>

\* HT_add that links the entry into bucket 0 whatever the key.
HT_add_bucket0(key, value) ==
    /\ status = "live"
    /\ Malloc(heap.node) # NULL
    /\ call' = Call("add", key)
    /\ IF capacity = 0
       THEN DivByZero
       ELSE LET hash_val == 0
                new_node == Malloc(heap.node)
                new_key == Malloc(heap.key)
            IN  /\ keymem' = [keymem EXCEPT ![new_key] = key]
                /\ mem' = [mem EXCEPT ![new_node] =
                             [next |-> nodes[hash_val], key |-> new_key,
                              value |-> value]]
                /\ nodes' = [nodes EXCEPT ![hash_val] = new_node]
                /\ heap' = [heap EXCEPT !.node[new_node] = "live",
                                        !.key[new_key] = "live"]
                /\ ret' = Void
                /\ UNCHANGED <<status, capacity, charSigned, hashVars, callerVars>>

\* HT_add that links the entry behind the last entry of the chain.
HT_add_tail(key, value) ==
    /\ status = "live"
    /\ Malloc(heap.node) # NULL
    /\ call' = Call("add", key)
    /\ IF capacity = 0
       THEN DivByZero
       ELSE LET hash_val == HT_hash(key, capacity)
                new_node == Malloc(heap.node)
                new_key == Malloc(heap.key)
                ch == Chain(nodes[hash_val])
                linked == [mem EXCEPT ![new_node] =
                             [next |-> NULL, key |-> new_key, value |-> value]]
            IN  /\ keymem' = [keymem EXCEPT ![new_key] = key]
                /\ mem' = IF ch = <<>> THEN linked
                          ELSE [linked EXCEPT ![ch[Len(ch)]].next = new_node]
                /\ nodes' = IF ch = <<>>
                            THEN [nodes EXCEPT ![hash_val] = new_node]
                            ELSE nodes
                /\ heap' = [heap EXCEPT !.node[new_node] = "live",
                                        !.key[new_key] = "live"]
                /\ ret' = Void
                /\ UNCHANGED <<status, capacity, charSigned, hashVars, callerVars>>

\* HT_add that stores the caller's pointer as the entry's key, when the key
\* comes from a caller's buffer, instead of the copy.
HT_add_alias(key, value) ==
    /\ status = "live"
    /\ Malloc(heap.node) # NULL
    /\ call' = Call("add", key)
    /\ IF capacity = 0
       THEN DivByZero
       ELSE LET hash_val == HT_hash(key, capacity)
                new_node == Malloc(heap.node)
                new_key == Malloc(heap.key)
            IN  /\ keymem' = [keymem EXCEPT ![new_key] = key]
                /\ mem' = [mem EXCEPT ![new_node] =
                             [next |-> nodes[hash_val],
                              key |-> IF keyptr # NULL THEN keyptr ELSE new_key,
                              value |-> value]]
                /\ nodes' = [nodes EXCEPT ![hash_val] = new_node]
                /\ heap' = [heap EXCEPT !.node[new_node] = "live",
                                        !.key[new_key] = "live"]
                /\ ret' = Void
                /\ UNCHANGED <<status, capacity, charSigned, hashVars, callerVars>>

HT_add(key, value) ==
    /\ status = "live"
    /\ Malloc(heap.node) # NULL
    /\ call' = Call("add", key)
    /\ IF capacity = 0
       THEN DivByZero
       ELSE LET hash_val == HT_hash(key, capacity)
                new_node == Malloc(heap.node)
                new_key == Malloc(heap.key)
            IN  /\ keymem' = [keymem EXCEPT ![new_key] = key]
                /\ mem' = [mem EXCEPT ![new_node] =
                             [next |-> nodes[hash_val], key |-> new_key,
                              value |-> value]]
                /\ nodes' = [nodes EXCEPT ![hash_val] = new_node]
                /\ heap' = [heap EXCEPT !.node[new_node] = "live",
                                        !.key[new_key] = "live"]
                /\ ret' = Void
                /\ UNCHANGED <<status, capacity, charSigned, hashVars, callerVars>>

\* ---------------------------------------------------------------- HT_change
\* HT_change that writes to the head of the bucket, whatever its key.
HT_change_head(key, new_value) ==
    /\ status = "live"
    /\ call' = Call("change", key)
    /\ IF capacity = 0
       THEN DivByZero
       ELSE LET node == nodes[HT_hash(key, capacity)]
            IN  IF node = NULL
                THEN NullDeref
                ELSE /\ mem' = [mem EXCEPT ![node].value = new_value]
                     /\ ret' = Void
                     /\ UNCHANGED <<status, capacity, nodes, keymem, heap,
                                    charSigned, hashVars, callerVars>>

\* node->value is written without a NULL test.
\* HT_change that overwrites the value of every entry holding the key.
HT_change_all(key, new_value) ==
    /\ status = "live"
    /\ call' = Call("change", key)
    /\ IF capacity = 0
       THEN DivByZero
       ELSE LET node == _lookup(key)
                ch == Chain(nodes[HT_hash(key, capacity)])
                hit == {ch[n] : n \in {m \in DOMAIN ch : KeyOf(ch[m]) = key}}
            IN  IF node = NULL
                THEN NullDeref
                ELSE /\ mem' = [a \in DOMAIN mem |->
                                 IF a \in hit
                                 THEN [mem[a] EXCEPT !.value = new_value]
                                 ELSE mem[a]]
                     /\ ret' = Void
                     /\ UNCHANGED <<status, capacity, nodes, keymem, heap,
                                    charSigned, hashVars, callerVars>>

HT_change(key, new_value) ==
    /\ status = "live"
    /\ call' = Call("change", key)
    /\ IF capacity = 0
       THEN DivByZero
       ELSE LET node == _lookup(key)
            IN  IF node = NULL
                THEN NullDeref
                ELSE /\ mem' = [mem EXCEPT ![node].value = new_value]
                     /\ ret' = Void
                     /\ UNCHANGED <<status, capacity, nodes, keymem, heap,
                                    charSigned, hashVars, callerVars>>

\* ------------------------------------------------- _HT_remove_node, HT_remove
\* An HT_Node** is the place of a pointer: a bucket slot or a node's next field.
BucketSlot(i) == <<"bucket", i>>
NextField(a) == <<"next", a>>
Deref(loc) == IF loc[1] = "bucket" THEN nodes[loc[2]] ELSE mem[loc[2]].next

\* free(p): a block that is not live is freed twice or was never allocated.
Free(st) == IF st = "live" THEN "freed" ELSE "corrupt"

\* _HT_remove_node whose second test frees cur without prev->next = next.
RECURSIVE _HT_remove_node_nolink(_, _)
_HT_remove_node_nolink(node, key) ==
    LET p == Deref(node)
        same == [out |-> Segv, nodes |-> nodes, mem |-> mem, heap |-> heap]
    IN  IF p = NULL THEN same
        ELSE IF strcmp(KeyOf(p), key) = 0
        THEN [out |-> Void,
              nodes |-> IF node[1] = "bucket"
                        THEN [nodes EXCEPT ![node[2]] = NULL] ELSE nodes,
              mem |-> IF node[1] = "next"
                      THEN [mem EXCEPT ![node[2]].next = NULL, ![p] = NoNode]
                      ELSE [mem EXCEPT ![p] = NoNode],
              heap |-> [heap EXCEPT !.node[p] = Free(heap.node[p])]]
        ELSE IF mem[p].next = NULL THEN same
        ELSE IF strcmp(KeyOf(mem[p].next), key) = 0
        THEN [out |-> Void,
              nodes |-> nodes,
              mem |-> mem,
              heap |-> [heap EXCEPT !.node[mem[p].next] = Free(heap.node[mem[p].next])]]
        ELSE _HT_remove_node_nolink(NextField(p), key)

\* _HT_remove_node whose first test does free(*node) without *node = NULL:
\* the slot keeps pointing to the freed node.
RECURSIVE _HT_remove_node_dangle(_, _)
_HT_remove_node_dangle(node, key) ==
    LET p == Deref(node)
        same == [out |-> Segv, nodes |-> nodes, mem |-> mem, heap |-> heap]
    IN  IF p = NULL THEN same
        ELSE IF strcmp(KeyOf(p), key) = 0
        THEN [out |-> Void,
              nodes |-> nodes,
              mem |-> mem,
              heap |-> [heap EXCEPT !.node[p] = Free(heap.node[p])]]
        ELSE IF mem[p].next = NULL THEN same
        ELSE IF strcmp(KeyOf(mem[p].next), key) = 0
        THEN LET next == mem[mem[p].next].next
                 cur == mem[p].next
                 prev == p
             IN  [out |-> Void,
                  nodes |-> nodes,
                  mem |-> [mem EXCEPT ![prev].next = next, ![cur] = NoNode],
                  heap |-> [heap EXCEPT !.node[cur] = Free(heap.node[cur])]]
        ELSE _HT_remove_node_dangle(NextField(p), key)

\* _HT_remove_node whose second test sets prev->next = NULL: the entries
\* behind cur are cut off the chain.
RECURSIVE _HT_remove_node_cut(_, _)
_HT_remove_node_cut(node, key) ==
    LET p == Deref(node)
        same == [out |-> Segv, nodes |-> nodes, mem |-> mem, heap |-> heap]
    IN  IF p = NULL THEN same
        ELSE IF strcmp(KeyOf(p), key) = 0
        THEN [out |-> Void,
              nodes |-> IF node[1] = "bucket"
                        THEN [nodes EXCEPT ![node[2]] = NULL] ELSE nodes,
              mem |-> IF node[1] = "next"
                      THEN [mem EXCEPT ![node[2]].next = NULL, ![p] = NoNode]
                      ELSE [mem EXCEPT ![p] = NoNode],
              heap |-> [heap EXCEPT !.node[p] = Free(heap.node[p])]]
        ELSE IF mem[p].next = NULL THEN same
        ELSE IF strcmp(KeyOf(mem[p].next), key) = 0
        THEN LET cur == mem[p].next
                 prev == p
             IN  [out |-> Void,
                  nodes |-> nodes,
                  mem |-> [mem EXCEPT ![prev].next = NULL, ![cur] = NoNode],
                  heap |-> [heap EXCEPT !.node[cur] = Free(heap.node[cur])]]
        ELSE _HT_remove_node_cut(NextField(p), key)

\* The state _HT_remove_node(node, key) leaves, and whether it returned.
\*   first test:  free(*node); *node = NULL;   (the key copy is not freed, and
\*                the successor of *node is no longer pointed to)
\*   second test: prev->next = next; free(cur);
\* Both (*node)->key and (*node)->next->key are read without a NULL test.
RECURSIVE _HT_remove_node(_, _)
_HT_remove_node(node, key) ==
    LET p == Deref(node)
        same == [out |-> Segv, nodes |-> nodes, mem |-> mem, heap |-> heap]
    IN  IF p = NULL THEN same
        ELSE IF strcmp(KeyOf(p), key) = 0
        THEN [out |-> Void,
              nodes |-> IF node[1] = "bucket"
                        THEN [nodes EXCEPT ![node[2]] = NULL] ELSE nodes,
              mem |-> IF node[1] = "next"
                      THEN [mem EXCEPT ![node[2]].next = NULL, ![p] = NoNode]
                      ELSE [mem EXCEPT ![p] = NoNode],
              heap |-> [heap EXCEPT !.node[p] = Free(heap.node[p])]]
        ELSE IF mem[p].next = NULL THEN same
        ELSE IF strcmp(KeyOf(mem[p].next), key) = 0
        THEN LET next == mem[mem[p].next].next
                 cur == mem[p].next
                 prev == p
             IN  [out |-> Void,
                  nodes |-> nodes,
                  mem |-> [mem EXCEPT ![prev].next = next, ![cur] = NoNode],
                  heap |-> [heap EXCEPT !.node[cur] = Free(heap.node[cur])]]
        ELSE _HT_remove_node(NextField(p), key)

HT_remove(key) ==
    /\ status = "live"
    /\ call' = Call("remove", key)
    /\ IF capacity = 0
       THEN DivByZero
       ELSE LET r == _HT_remove_node(BucketSlot(HT_hash(key, capacity)), key)
            IN  /\ nodes' = r.nodes
                /\ mem' = r.mem
                /\ heap' = r.heap
                /\ ret' = r.out
                /\ status' = IF r.out = Segv THEN "crashed" ELSE status
                /\ UNCHANGED <<capacity, keymem, charSigned, hashVars, callerVars>>

\* ------------------------------------------------ _HT_destroy_nodes, HT_destroy
\* free(p) of the block a char* points to.
FreeStr(h, p) ==
    IF p \in Addr THEN [h EXCEPT !.key[p] = Free(h.key[p])]
    ELSE [h EXCEPT !.cbuf[p] = Free(h.cbuf[p])]

\* free(node->key); free(node); for every node of the chain.
RECURSIVE _HT_destroy_nodes(_, _)
_HT_destroy_nodes(node, h) ==
    IF node = NULL THEN h
    ELSE _HT_destroy_nodes(mem[node].next,
            [FreeStr(h, mem[node].key) EXCEPT !.node[node] = Free(h.node[node])])

RECURSIVE DestroyFrom(_, _)
DestroyFrom(cur, h) ==
    IF cur >= capacity THEN h
    ELSE DestroyFrom(cur + 1, _HT_destroy_nodes(nodes[cur], h))

\* Every chain is freed, then the struct; the bucket array is not.
HT_destroy ==
    /\ status = "live"
    /\ status' = "destroyed"
    /\ heap' = [DestroyFrom(0, heap) EXCEPT !.ht = Free(heap.ht)]
    /\ mem' = [a \in Addr |->
                IF heap.node[a] = "live" /\ heap'.node[a] # "live"
                THEN NoNode ELSE mem[a]]
    /\ keymem' = [a \in Addr |->
                   IF heap.key[a] = "live" /\ heap'.key[a] # "live"
                   THEN <<>> ELSE keymem[a]]
    /\ cbuf' = [b \in CallerBufs |->
                 IF heap.cbuf[b] = "live" /\ heap'.cbuf[b] # "live"
                 THEN <<>> ELSE cbuf[b]]
    /\ call' = Call("destroy", <<>>)
    /\ ret' = Void
    /\ UNCHANGED <<capacity, nodes, charSigned, hashVars, keyptr>>

\* --------------------------------------------------------------------- Next
Create == \E size \in Sizes : HT_create(size)
Add == \E key \in Keys, value \in Values : HT_add(key, value)
Check == \E key \in Keys : HT_check(key)
Find == \E key \in Keys : HT_find(key)
Change == \E key \in Keys, value \in Values : HT_change(key, value)
Remove == \E key \in Keys : HT_remove(key)
Destroy == HT_destroy

Next ==
    \/ Create
    \/ Add
    \/ Check
    \/ Find
    \/ Change
    \/ Remove
    \/ Destroy

Spec == Init /\ [][Next]_vars

\* ------------------------------------------------------ HT_hash, step by step
HashKeySet(n) == UNION {[1..m -> HashBytes] : m \in 0..n}

InitHash ==
    /\ InitTable
    /\ charSigned \in BOOLEAN
    /\ hkey \in HashKeySet(MaxKeyLen)
    /\ hsize \in HashSizes
    /\ hpos = 1
    /\ hashval = <<0, 0>>
    /\ hpc = "loop"
    /\ index1 = NoIndex
    /\ NoCaller

\* for (hashval = 0; *key != '\0'; key++) hashval = *key + HASHPRIME * hashval;
HashIter ==
    /\ hpc = "loop"
    /\ hpos <= Len(hkey)
    /\ hashval' = HashStep(hashval, hkey[hpos])
    /\ hpos' = hpos + 1
    /\ UNCHANGED <<status, tableVars, call, ret, charSigned, hkey, hsize, hpc,
                   index1, callerVars>>

\* return hashval % size;
HashReturn ==
    /\ hpc = "loop"
    /\ hpos > Len(hkey)
    /\ ret' = IntRet(UMod(hashval, hsize))
    /\ hpc' = "done"
    /\ UNCHANGED <<status, tableVars, call, charSigned, hkey, hsize, hpos, hashval,
                   index1, callerVars>>

NextHash ==
    \/ HashIter
    \/ HashReturn

HashSpec == InitHash /\ [][NextHash]_vars

\* ------------------------------------------- test_hash: one letter changed
\* Bytes of the keys of the sensitivity test: a letter, the greatest positive
\* plain char and the greatest byte (whose increment is NUL).
SensBytes == {97, 127, 255}

InitSens ==
    /\ InitTable
    /\ charSigned \in BOOLEAN
    /\ hkey \in UNION {[1..m -> SensBytes] : m \in 1..MaxKeyLen}
    /\ hsize = HASH_SIZE
    /\ hpos = 1
    /\ hashval = <<0, 0>>
    /\ hpc = "loop"
    /\ index1 = NoIndex
    /\ NoCaller

\* index1 = HT_hash(keys[i], HASH_SIZE); key[p]++; and the call of
\* HT_hash(keys[i], HASH_SIZE) for index2 begins.  The incremented byte is
\* not the NUL terminator and does not become NUL.
Bump(p) ==
    /\ hpc = "done"
    /\ index1 = NoIndex
    /\ p \in DOMAIN hkey
    /\ (hkey[p] + 1) % 256 # 0
    /\ index1' = ret.val
    /\ hkey' = [hkey EXCEPT ![p] = (hkey[p] + 1) % 256]
    /\ hpos' = 1
    /\ hashval' = <<0, 0>>
    /\ hpc' = "loop"
    /\ UNCHANGED <<status, tableVars, call, ret, charSigned, hsize, callerVars>>

NextSens ==
    \/ HashIter
    \/ HashReturn
    \/ \E p \in 1..MaxKeyLen : Bump(p)

SensSpec == InitSens /\ [][NextSens]_vars

\* -------------------------------------- a caller that owns its key buffers
\* The caller has malloc'ed its keys (_random_keys) before the table exists.
InitBuf ==
    /\ status = "none"
    /\ capacity = 0
    /\ nodes = [i \in {} |-> NULL]
    /\ mem = [a \in Addr |-> NoNode]
    /\ keymem = [a \in Addr |-> <<>>]
    /\ heap = [NoHeap EXCEPT !.cbuf = [b \in CallerBufs |-> "live"]]
    /\ call = Call("none", <<>>)
    /\ ret = Void
    /\ charSigned = TRUE
    /\ HashIdle
    /\ cbuf \in [CallerBufs -> Keys]
    /\ keyptr = NULL

\* char* key = keys[i];
CallerPick(b) ==
    /\ status = "live"
    /\ heap.cbuf[b] = "live"
    /\ keyptr # b
    /\ keyptr' = b
    /\ UNCHANGED <<status, tableVars, call, ret, charSigned, hashVars, cbuf>>

\* HT_add(table, keys[i], values[i]): the key is read from the caller's buffer.
AddBuf(value) ==
    /\ keyptr # NULL
    /\ heap.cbuf[keyptr] = "live"
    /\ HT_add(Str(keyptr), value)

\* The caller writes another string into its buffer.
CallerOverwrite(b, key) ==
    /\ status = "live"
    /\ heap.cbuf[b] = "live"
    /\ key # cbuf[b]
    /\ cbuf' = [cbuf EXCEPT ![b] = key]
    /\ UNCHANGED <<status, tableVars, call, ret, charSigned, hashVars, keyptr>>

\* _destroy_keys: free(keys[i]), while the table is still live.
CallerFree(b) ==
    /\ status = "live"
    /\ heap.cbuf[b] = "live"
    /\ heap' = [heap EXCEPT !.cbuf[b] = "freed"]
    /\ cbuf' = [cbuf EXCEPT ![b] = <<>>]
    /\ UNCHANGED <<status, capacity, nodes, mem, keymem, call, ret, charSigned,
                   hashVars, keyptr>>

NextBuf ==
    \/ Create
    \/ \E b \in CallerBufs : CallerPick(b)
    \/ \E value \in Values : AddBuf(value)
    \/ \E b \in CallerBufs, key \in Keys : CallerOverwrite(b, key)
    \/ \E b \in CallerBufs : CallerFree(b)
    \/ Destroy

BufSpec == InitBuf /\ [][NextBuf]_vars

\* ------------------------------------------------- malloc returns NULL
\* The allocations a call makes, any of which may fail.
CreateAllocs == {"hash_table", "nodes"}
AddAllocs == {"new_node", "new_key", "both"}

\* HT_create when malloc returns NULL.  Neither result is tested:
\*   hash_table NULL: hash_table->capacity = size writes through NULL;
\*   nodes NULL:      the struct is allocated and filled, and the loop writes
\*                    nodes[0] through NULL; with size 0 the loop does not run
\*                    and the table is returned with a NULL bucket array.
HT_create_nomem(size, failed) ==
    /\ status = "none"
    /\ call' = Call("create", <<>>)
    /\ IF failed = "hash_table"
       THEN NullDeref
       ELSE /\ capacity' = size
            /\ nodes' = [i \in {} |-> NULL]
            /\ heap' = [heap EXCEPT !.ht = "live"]
            /\ status' = IF size > 0 THEN "crashed" ELSE "live"
            /\ ret' = IF size > 0 THEN Segv ELSE Void
            /\ UNCHANGED <<mem, keymem, charSigned, hashVars, callerVars>>

\* HT_add when malloc returns NULL.  Neither result is tested:
\*   new_key NULL:  strcpy(new_key, key) writes through NULL, the node block
\*                  (if it was allocated) is left allocated and unlinked;
\*   new_node NULL: the key is copied, then new_node->key = new_key writes
\*                  through NULL, the key copy is left allocated.
HT_add_nomem(key, value, failed) ==
    /\ status = "live"
    /\ Malloc(heap.node) # NULL
    /\ call' = Call("add", key)
    /\ IF capacity = 0
       THEN DivByZero
       ELSE LET new_node == Malloc(heap.node)
                new_key == Malloc(heap.key)
            IN  /\ heap' = IF failed = "new_key"
                           THEN [heap EXCEPT !.node[new_node] = "live"]
                           ELSE IF failed = "new_node"
                           THEN [heap EXCEPT !.key[new_key] = "live"]
                           ELSE heap
                /\ keymem' = IF failed = "new_node"
                             THEN [keymem EXCEPT ![new_key] = key]
                             ELSE keymem
                /\ status' = "crashed"
                /\ ret' = Segv
                /\ UNCHANGED <<capacity, nodes, mem, charSigned, hashVars,
                               callerVars>>

CreateNomem == \E size \in Sizes, failed \in CreateAllocs :
                    HT_create_nomem(size, failed)
AddNomem == \E key \in Keys, value \in Values, failed \in AddAllocs :
                    HT_add_nomem(key, value, failed)

NextNomem ==
    \/ Next
    \/ CreateNomem
    \/ AddNomem

NomemSpec == Init /\ [][NextNomem]_vars

\* =================================================================== claims
\* The table answers calls: it is live and has at least one bucket.
Usable == status = "live" /\ capacity > 0

\* The keys HT_add has ever copied into the table (key blocks are never reused).
InsertedKeys == {keymem[a] : a \in {b \in Addr : heap.key[b] # "unalloc"}}

\* The entries of the bucket of key, head first.
BucketOf(key) == _HT_print(nodes[HT_hash(key, capacity)])

\* How many entries of its bucket hold key.
CountKey(key) ==
    Cardinality({n \in DOMAIN BucketOf(key) : BucketOf(key)[n].key = key})

\* Some node has been freed: an HT_remove has returned.
SomeRemoved == \E a \in Addr : heap.node[a] = "freed"

\* C1: after add(k, v), check(k) is true and find(k) = v, and an add of k
\* leaves check and find of every other present key as they were, in the same
\* bucket or not (so the round trip of a key survives any later adds of
\* other keys).
RoundTrip ==
    [][\A k \in Keys, v \in Values :
        (HT_add(k, v) /\ capacity > 0) =>
            /\ CheckOf(k)' = 1
            /\ FindOf(k)' = IntRet(v)
            /\ \A k2 \in Keys \ {k} :
                CheckOf(k2) = 1 =>
                    (CheckOf(k2)' = 1 /\ FindOf(k2)' = FindOf(k2))]_vars

\* Three distinct keys added into the one bucket of a table of capacity 1,
\* nothing removed, each found with the value of its entry.
RoundTripWitness ==
    /\ Usable
    /\ capacity = 1
    /\ call.op = "add"
    /\ ~SomeRemoved
    /\ Len(BucketOf(call.key)) = 3
    /\ \A k \in Keys : CountKey(k) = 1 /\ CheckOf(k) = 1
    /\ \A n \in 1..3 :
        FindOf(BucketOf(call.key)[n].key) = IntRet(BucketOf(call.key)[n].value)

\* C2: remove(k) of a present key leaves check(k') and find(k') of every
\* other key k' as they were.
RemoveFrame ==
    [][\A k \in Keys :
        (HT_remove(k) /\ capacity > 0 /\ CheckOf(k) = 1) =>
            \A k2 \in Keys \ {k} :
                (CheckOf(k2)' = CheckOf(k2) /\ FindOf(k2)' = FindOf(k2))]_vars

\* What find returns behind the first entry matching key, and whether there
\* is such an entry.
ShadowedCheck(key) == _HT_check(mem[_lookup(key)].next, key)
ShadowedFind(key) == _HT_find(mem[_lookup(key)].next, key)

\* C3: when k is held by two entries, one remove(k) leaves check(k) true and
\* find(k) the value of the older entry.
ShadowResurfaces ==
    [][\A k \in Keys :
        (HT_remove(k) /\ capacity > 0 /\ CheckOf(k) = 1 /\ ShadowedCheck(k) = 1) =>
            (CheckOf(k)' = 1 /\ FindOf(k)' = ShadowedFind(k))]_vars

\* C4: add(k, v) of a key that is present keeps every entry of the bucket and
\* puts one more entry for k in it, and find(k) is then v.
MostRecentWins ==
    [][\A k \in Keys, v \in Values :
        (HT_add(k, v) /\ capacity > 0 /\ CheckOf(k) = 1) =>
            /\ FindOf(k)' = IntRet(v)
            /\ CountKey(k)' = CountKey(k) + 1
            /\ Tail(BucketOf(k)') = BucketOf(k)]_vars

\* k added twice with different values and another key added in between:
\* both entries are in the chain and find gives the newer value.
MostRecentWinsWitness ==
    /\ Usable
    /\ call.op = "add"
    /\ Len(BucketOf(call.key)) = 3
    /\ BucketOf(call.key)[1].key = call.key
    /\ BucketOf(call.key)[2].key # call.key
    /\ BucketOf(call.key)[3].key = call.key
    /\ BucketOf(call.key)[1].value # BucketOf(call.key)[3].value
    /\ FindOf(call.key) = IntRet(BucketOf(call.key)[1].value)

\* C5: change(k, v2) of a present key makes find(k) = v2 and keeps check(k).
Update ==
    [][\A k \in Keys, v \in Values :
        (HT_change(k, v) /\ capacity > 0 /\ CheckOf(k) = 1) =>
            \A h \in {HT_hash(k, capacity)} :
                /\ capacity' = capacity
                /\ _HT_find(nodes[h], k)' = IntRet(v)
                /\ _HT_check(nodes[h], k)' = 1
                /\ status' = "live"]_vars

\* change has returned for a key whose entry is the tail of a chain of three
\* distinct keys.
UpdateWitness ==
    /\ Usable
    /\ call.op = "change"
    /\ Len(BucketOf(call.key)) = 3
    /\ \A k \in Keys : CountKey(k) = 1
    /\ BucketOf(call.key)[3].key = call.key
    /\ BucketOf(call.key)[3].value # BucketOf(call.key)[1].value

\* C6: remove(k) of a key held by exactly one entry makes check(k) false and
\* returns; and once an entry has been removed, add(k', v') still makes
\* check(k') true and find(k') = v'.
Removal ==
    [][/\ \A k \in Keys :
            (HT_remove(k) /\ capacity > 0 /\ CountKey(k) = 1) =>
                (CheckOf(k)' = 0 /\ ret' = Void /\ status' = "live")
       /\ \A k \in Keys, v \in Values :
            (HT_add(k, v) /\ capacity > 0 /\ SomeRemoved) =>
                (CheckOf(k)' = 1 /\ FindOf(k)' = IntRet(v))]_vars

\* A key was removed from behind the head of a chain, it is gone, and another
\* key was added to the chain after that.
RemovalWitness ==
    /\ Usable
    /\ call.op = "add"
    /\ SomeRemoved
    /\ CheckOf(call.key) = 1
    /\ Len(BucketOf(call.key)) = 2
    /\ \E a \in Addr :
        heap.node[a] = "freed" /\ CheckOf(keymem[a]) = 0

\* C7: find, change and remove of a key that no entry holds return a
\* "not found" result and leave the table as it was.
NotFoundIsExplicit ==
    [][\A k \in Keys, v \in Values :
        ((HT_find(k) \/ HT_change(k, v) \/ HT_remove(k))
                /\ capacity > 0 /\ CheckOf(k) = 0) =>
            (ret'.kind = "notfound" /\ status' = "live"
                                    /\ UNCHANGED tableVars)]_vars

\* C8: check(k) is 0 for a key no add has been given, whatever its bucket
\* holds, and a check call changes nothing of the table.
CheckNeverInvents ==
    /\ [](\A k \in Keys :
            (Usable /\ k \notin InsertedKeys) => CheckOf(k) = 0)
    /\ [][\A k \in Keys :
            (HT_check(k) /\ capacity > 0) =>
                (UNCHANGED <<status, tableVars>>
                    /\ (k \notin InsertedKeys => ret' = IntRet(0)))]_vars

\* check has returned 0 for a key never added whose bucket holds two other keys.
CheckNeverInventsWitness ==
    /\ Usable
    /\ call.op = "check"
    /\ call.key \notin InsertedKeys
    /\ Len(BucketOf(call.key)) = 2
    /\ ret = IntRet(0)

\* C9: no table has capacity 0, and no call divides by a capacity of 0.
NoZeroCapacity ==
    /\ status # "none" => capacity >= 1
    /\ ret.kind # "sigfpe"

\* C10: HT_hash returns an index i with 0 <= i < size, for every key and
\* every size > 0.
HashRange ==
    hpc = "done" => (ret.kind = "int" /\ 0 <= ret.val /\ ret.val < hsize)

\* The step on byte b from accumulator h wraps around 2^32.
HashWraps(h, b) ==
    LET c == CharToUnsigned(b)
        lo == c[2] + HASHPRIME * h[2]
    IN  c[1] + HASHPRIME * h[1] + (lo \div Limb) >= Limb

\* HT_hash has returned for a key of the greatest length, of bytes below 128,
\* whose accumulator wrapped on the way, with size 10.
HashRangeWitness ==
    /\ hpc = "done"
    /\ Len(hkey) = MaxKeyLen
    /\ hsize = HASH_SIZE
    /\ \A n \in 1..Len(hkey) : hkey[n] < 128
    /\ \E n \in 1..Len(hkey) :
        HashWraps(HashLoop(<<0, 0>>, SubSeq(hkey, 1, n - 1)), hkey[n])
    /\ ret.val < hsize

\* The entries of bucket i, head first.
Bucket(i) == _HT_print(nodes[i])

\* C11: while the table is live its capacity and its number of buckets stay
\* what create made them, and every entry of bucket i holds a key k with
\* HT_hash(k, capacity) = i.
BucketPlacement ==
    /\ [](Usable =>
            \A i \in DOMAIN nodes : \A n \in DOMAIN Bucket(i) :
                HT_hash(Bucket(i)[n].key, capacity) = i)
    /\ [][status = "live" =>
            (capacity' = capacity /\ DOMAIN nodes' = DOMAIN nodes)]_vars

\* A table of capacity 2 after adds and a remove, with entries in both buckets.
BucketPlacementWitness ==
    /\ Usable
    /\ capacity = 2
    /\ call.op = "remove"
    /\ SomeRemoved
    /\ Len(Bucket(0)) = 1
    /\ Len(Bucket(1)) = 1

\* The position of the first entry of a chain that holds key.
FirstMatch(entries, key) ==
    CHOOSE n \in DOMAIN entries :
        /\ entries[n].key = key
        /\ \A m \in 1..(n - 1) : entries[m].key # key

\* A sequence without its n-th element.
DelAt(s, n) == SubSeq(s, 1, n - 1) \o SubSeq(s, n + 1, Len(s))

\* C17: remove(k), when the first entry holding k is behind the head of its
\* chain, makes that entry's predecessor point to its successor: the chain is
\* the old chain without that one entry, the other entries keep their order,
\* keys and values, and the bucket head is the same node.
InteriorRemoval ==
    [][\A k \in Keys :
        (HT_remove(k) /\ capacity > 0 /\ CheckOf(k) = 1
            /\ BucketOf(k)[1].key # k) =>
            LET h == HT_hash(k, capacity)
                old == BucketOf(k)
                ch == Chain(nodes[h])
                n == FirstMatch(old, k)
            IN  /\ ret' = Void /\ status' = "live"
                /\ nodes'[h] = nodes[h]
                /\ Chain(nodes[h])' = DelAt(ch, n)
                /\ BucketOf(k)' = DelAt(old, n)
                /\ mem'[ch[n - 1]].next =
                        IF n < Len(ch) THEN ch[n + 1] ELSE NULL]_vars

\* The middle entry of a chain of three was removed: its predecessor now
\* points to its successor.
InteriorRemovalWitness ==
    /\ Usable
    /\ call.op = "remove"
    /\ ret = Void
    /\ \E i \in DOMAIN nodes : Chain(nodes[i]) = <<3, 1>>
    /\ heap.node[2] = "freed"

\* C18: add(k, v), change(k, v) and remove(k) leave the chain of every bucket
\* other than HT_hash(k, capacity) as it was; and add(k, v) makes the new
\* entry the head of bucket HT_hash(k, capacity), followed by the previous
\* chain in its previous order.
SingleBucket ==
    [][\A k \in Keys, v \in Values :
        /\ ((HT_add(k, v) \/ HT_change(k, v) \/ HT_remove(k))
                /\ capacity > 0) =>
            \A i \in DOMAIN nodes \ {HT_hash(k, capacity)} :
                /\ Chain(nodes[i])' = Chain(nodes[i])
                /\ Bucket(i)' = Bucket(i)
        /\ (HT_add(k, v) /\ capacity > 0) =>
            LET h == HT_hash(k, capacity)
            IN  /\ Chain(nodes[h])' = <<Malloc(heap.node)>> \o Chain(nodes[h])
                /\ Bucket(h)' = <<[key |-> k, value |-> v]>> \o Bucket(h)]_vars

\* An add to a non-empty bucket of a table of two buckets, the other bucket
\* holding an entry too: the new entry is the head, the old head behind it.
SingleBucketWitness ==
    /\ Usable
    /\ capacity = 2
    /\ call.op = "add"
    /\ Len(BucketOf(call.key)) = 2
    /\ BucketOf(call.key)[1].key = call.key
    /\ \E i \in DOMAIN nodes \ {HT_hash(call.key, capacity)} : Len(Bucket(i)) = 1

\* C19: change(k, v) on a present key overwrites the value of the first entry
\* holding k, the one find returns, and nothing else: every chain keeps its
\* nodes and their order, every key and every other value stays, the older
\* entries holding k included, and no block is allocated or freed.
ChangeFrame ==
    [][\A k \in Keys, v \in Values :
        (HT_change(k, v) /\ capacity > 0 /\ CheckOf(k) = 1) =>
            \A h \in {HT_hash(k, capacity)} :
                LET old == Bucket(h)
                    n == FirstMatch(old, k)
                IN  /\ capacity' = capacity
                    /\ Bucket(h)' = [old EXCEPT ![n].value = v]
                    /\ _HT_find(nodes[h], k)' = IntRet(v)
                    /\ \A i \in DOMAIN nodes :
                            /\ Chain(nodes[i])' = Chain(nodes[i])
                            /\ i # h => Bucket(i)' = Bucket(i)
                    /\ nodes' = nodes /\ keymem' = keymem /\ heap' = heap]_vars

\* A change of a key held by two entries: the first has the new value, the
\* older one behind it still has its own.
ChangeFrameWitness ==
    /\ Usable
    /\ call.op = "change"
    /\ ret = Void
    /\ CountKey(call.key) = 2
    /\ \E n \in DOMAIN BucketOf(call.key) :
        /\ BucketOf(call.key)[n].key = call.key
        /\ FindOf(call.key) # IntRet(BucketOf(call.key)[n].value)

\* C13: destroy of a table that has only seen adds frees the table struct, the
\* bucket array, every node and every key copy, each once: no block of the
\* table is left allocated and none is freed twice.
DestroyReleasesAll ==
    [][(HT_destroy /\ ~SomeRemoved) =>
        /\ heap'.ht = "freed"
        /\ heap'.nodes = "freed"
        /\ \A a \in Addr :
            /\ heap.node[a] = "live" => heap'.node[a] = "freed"
            /\ heap.key[a] = "live" => heap'.key[a] = "freed"]_vars

\* The nodes and the key blocks reachable from the bucket heads.
ReachableNodes == UNION {{Chain(nodes[i])[n] : n \in DOMAIN Chain(nodes[i])} :
                            i \in DOMAIN nodes}
ReachableKeys == {mem[a].key : a \in ReachableNodes}

\* C14: remove(k) of a present key frees the node of the first entry holding
\* k and its key copy, frees nothing else, and leaves every block that is
\* still allocated reachable from a bucket head.
RemoveReleasesEntry ==
    [][\A k \in Keys :
        (HT_remove(k) /\ capacity > 0 /\ CheckOf(k) = 1) =>
            LET victim == _lookup(k)
                vkey == mem[victim].key
            IN  /\ heap'.node[victim] = "freed"
                /\ heap'.key[vkey] = "freed"
                /\ \A a \in Addr \ {victim} : heap'.node[a] = heap.node[a]
                /\ \A a \in Addr \ {vkey} : heap'.key[a] = heap.key[a]
                /\ \A a \in Addr :
                    /\ heap'.node[a] = "live" => a \in ReachableNodes'
                    /\ heap'.key[a] = "live" => a \in ReachableKeys']_vars

\* The reference hash: from accumulator 0, for each byte b of the key in
\* order, accumulator = (b + 31 * accumulator) mod 2^32, b the value of the
\* byte, 0..255; the result is the accumulator modulo the capacity.
RefStep(acc, b) ==
    LET lo == b + 31 * acc[2]
        hi == 31 * acc[1] + (lo \div Limb)
    IN  <<hi % Limb, lo % Limb>>

RECURSIVE RefAcc(_)
RefAcc(key) ==
    IF key = <<>> THEN <<0, 0>>
    ELSE RefStep(RefAcc(SubSeq(key, 1, Len(key) - 1)), key[Len(key)])

\* acc mod size, with 2^16 * hi + lo reduced limb by limb.
RefHash(key, size) ==
    LET acc == RefAcc(key)
    IN  (((acc[1] % size) * (Limb % size)) + (acc[2] % size)) % size

\* C15: HT_hash(key, size) is the reference hash of its arguments: the same
\* key and size always give the same index, and the empty key gives 0.
HashIsReference ==
    hpc = "done" =>
        /\ ret = IntRet(RefHash(hkey, hsize))
        /\ ret = IntRet(HT_hash(hkey, hsize))
        /\ hkey = <<>> => ret = IntRet(0)

\* C20: for capacity 10, a key with one byte incremented by 1 (the byte not
\* becoming NUL) has another index than the key had, whether or not the
\* accumulator wraps around 2^32.
ByteSensitivity ==
    (hpc = "done" /\ index1 # NoIndex) =>
        (ret.kind = "int" /\ ret.val # index1)

\* The first byte of a key of the greatest length was incremented from 'a' to
\* 'b': its weight 31^(MaxKeyLen - 1) is beyond 2^32, and the second index is
\* there.
ByteSensitivityWitness ==
    /\ hpc = "done"
    /\ index1 # NoIndex
    /\ hsize = HASH_SIZE
    /\ Len(hkey) = MaxKeyLen
    /\ hkey[1] = 98
    /\ \A p \in 2..MaxKeyLen : hkey[p] = 97

\* C12: the table holds private copies of its keys.  When the caller
\* overwrites or frees a key buffer it has added from, every bucket lists the
\* entries it listed before, and check and find of every key answer as
\* before; and destroy frees no caller buffer and no block twice.
KeysArePrivate ==
    [][/\ \A b \in CallerBufs :
            ((CallerFree(b) \/ \E key \in Keys : CallerOverwrite(b, key))
                /\ capacity > 0) =>
                /\ \A i \in DOMAIN nodes : Bucket(i)' = Bucket(i)
                /\ capacity' = capacity
                /\ \A k \in Keys : \A h \in {HT_hash(k, capacity)} :
                    /\ _HT_check(nodes[h], k)' = _HT_check(nodes[h], k)
                    /\ _HT_find(nodes[h], k)' = _HT_find(nodes[h], k)
       /\ HT_destroy =>
            /\ heap'.cbuf = heap.cbuf
            /\ cbuf' = cbuf
            /\ \A a \in Addr : heap'.key[a] # "corrupt"]_vars

\* The caller has freed the buffer it added from last and no buffer holds the
\* key of that add any more: check and find of that key still succeed.
KeysArePrivateWitness ==
    /\ Usable
    /\ call.op = "add"
    /\ keyptr # NULL
    /\ heap.cbuf[keyptr] = "freed"
    /\ \A b \in CallerBufs : cbuf[b] # call.key
    /\ CheckOf(call.key) = 1
    /\ FindOf(call.key).kind = "int"

\* C16: a create or an add during which an allocation fails does not crash
\* and has no effect: no table is built, no block stays allocated, no entry is
\* linked, and the table answers the next call.
AllocFailureAtomic ==
    [][(CreateNomem \/ AddNomem) =>
        /\ status' = status
        /\ ret'.kind \notin {"segv", "sigfpe"}
        /\ UNCHANGED tableVars]_vars

\* The nodes met by following next from node, at most n of them.
RECURSIVE Walk(_, _)
Walk(node, n) ==
    IF node = NULL \/ n = 0 THEN <<>>
    ELSE <<node>> \o Walk(mem[node].next, n - 1)

\* The walk from the head of bucket i, cut after one node more than there are.
WalkOf(i) == Walk(nodes[i], MaxNodes + 1)

\* C21: while the table exists, every bucket chain ends in NULL without
\* meeting a node twice, no node is on the chains of two buckets, and every
\* node on a chain and its key are allocated blocks that have not been freed:
\* the scans of check, find, remove and destroy end.
ChainsWellFormed ==
    status \in {"live", "crashed"} =>
        /\ \A i \in DOMAIN nodes :
            /\ Len(WalkOf(i)) <= MaxNodes
            /\ \A m, n \in DOMAIN WalkOf(i) : WalkOf(i)[m] = WalkOf(i)[n] => m = n
            /\ \A n \in DOMAIN WalkOf(i) :
                LET a == WalkOf(i)[n]
                IN  /\ a \in Addr
                    /\ heap.node[a] = "live"
                    /\ mem[a].next \in Addr \cup {NULL}
                    /\ mem[a].key \in Addr
                    /\ heap.key[mem[a].key] = "live"
        /\ \A i, j \in DOMAIN nodes :
            i # j => \A m \in DOMAIN WalkOf(i), n \in DOMAIN WalkOf(j) :
                        WalkOf(i)[m] # WalkOf(j)[n]

\* A table of two buckets after adds, a removal behind the head and a change:
\* both buckets hold an entry and a freed node is on no chain.
ChainsWellFormedWitness ==
    /\ Usable
    /\ capacity = 2
    /\ call.op = "change"
    /\ ret = Void
    /\ SomeRemoved
    /\ \A i \in DOMAIN nodes : Len(WalkOf(i)) = 1

====
